---- MODULE Spec2Model ----
(***************************************************************************)
(* Counterparty risk analysis: RepoDataProcessor (data_processor.py) and   *)
(* CounterpartyRiskAnalyzer (counterparty_analyzer.py).                    *)
(*                                                                         *)
(* A DataFrame is a sequence of rows, a row a record of its columns.       *)
(* A float is an exact fraction [n, d] with d >= 0; d = 0 holds the IEEE   *)
(* specials pandas produces: 0/0 is NaN, 1/0 is +inf, -1/0 is -inf.        *)
(***************************************************************************)
EXTENDS Integers, Sequences, FiniteSets, TLC

VARIABLES
    config,                    \* the run's configuration (processor.config, analyzer.config)
    data,                      \* RepoDataProcessor.data
    processed_data,            \* RepoDataProcessor.processed_data
    processor_status,          \* how the last derive_risk_fields call ended
    counterparty_profiles,     \* CounterpartyRiskAnalyzer.counterparty_profiles
    high_risk_counterparties,  \* CounterpartyRiskAnalyzer.high_risk_counterparties
    risk_aggregates,           \* CounterpartyRiskAnalyzer.risk_aggregates
    analysis_results,          \* what the last analyze_counterparties call returned
    analyzer_status,           \* how the last analyze_counterparties call ended
    analyzed_data,             \* the DataFrame the last analyze_counterparties call was given
    vote_log,                  \* the profiles _is_high_risk_counterparty was called on, and its verdicts
    n_loads,                   \* load_data calls so far
    n_runs,                    \* analyze_counterparties calls so far
    last_call                  \* the last clean_data, get_processed_data, save_processed_data or
                               \* get_data_summary call: how it ended and what it gave

vars == <<config, data, processed_data, processor_status, counterparty_profiles,
          high_risk_counterparties, risk_aggregates, analysis_results,
          analyzer_status, analyzed_data, vote_log, n_loads, n_runs, last_call>>

-----------------------------------------------------------------------------
(* Bounds of the model.                                                    *)

MaxTrades == 2

MaxLoads == 2

MaxRuns == 2

-----------------------------------------------------------------------------
(* Floating-point values as exact fractions.                               *)

\* Python's None, and a DataFrame holding rows.
None == [none |-> TRUE]

Frame(rows) == [rows |-> rows]

Abs(x) == IF x < 0 THEN -x ELSE x

Sgn(x) == IF x > 0 THEN 1 ELSE IF x < 0 THEN -1 ELSE 0

RECURSIVE Gcd(_, _)
Gcd(a, b) == IF b = 0 THEN a ELSE Gcd(b, a % b)

\* The fraction n/d in lowest terms; d may be negative or zero on entry.
Frac(n, d) ==
    IF d = 0 THEN [n |-> Sgn(n), d |-> 0]
    ELSE LET g == Gcd(Abs(n), Abs(d))
         IN  [n |-> (Sgn(d) * n) \div g, d |-> Abs(d) \div g]

FInt(k) == [n |-> k, d |-> 1]

NaN == [n |-> 0, d |-> 0]

IsNaN(x) == x.d = 0 /\ x.n = 0

IsInf(x) == x.d = 0 /\ x.n # 0

FAdd(x, y) ==
    IF IsNaN(x) \/ IsNaN(y) THEN NaN
    ELSE IF IsInf(x) /\ IsInf(y) THEN (IF x.n = y.n THEN x ELSE NaN)
    ELSE IF IsInf(x) THEN x
    ELSE IF IsInf(y) THEN y
    ELSE Frac(x.n * y.d + y.n * x.d, x.d * y.d)

FNeg(x) == [n |-> -x.n, d |-> x.d]

FSub(x, y) == FAdd(x, FNeg(y))

FMul(x, y) == Frac(x.n * y.n, x.d * y.d)

\* x / y as IEEE does it: x/0 is +-inf, 0/0 and inf/inf are NaN, x/inf is 0.
FDiv(x, y) ==
    IF IsNaN(x) \/ IsNaN(y) THEN NaN
    ELSE IF IsInf(x)
         THEN (IF IsInf(y) THEN NaN
               ELSE [n |-> x.n * (IF y.n < 0 THEN -1 ELSE 1), d |-> 0])
    ELSE Frac(x.n * y.d, x.d * y.n)

\* Comparisons; every comparison with NaN is false.
FGt(x, y) ==
    /\ ~IsNaN(x)
    /\ ~IsNaN(y)
    /\ IF IsInf(x) /\ IsInf(y) THEN x.n > y.n ELSE x.n * y.d > y.n * x.d

FLe(x, y) ==
    /\ ~IsNaN(x)
    /\ ~IsNaN(y)
    /\ IF IsInf(x) /\ IsInf(y) THEN x.n <= y.n ELSE x.n * y.d <= y.n * x.d

FGe(x, y) == FLe(y, x)

\* Series.clip(upper=u): NaN stays NaN.
ClipUpper(x, u) == IF FGt(x, u) THEN u ELSE x

\* int(b) of a boolean column.
AsInt(b) == IF b THEN FInt(1) ELSE FInt(0)

RECURSIVE FSumSeq(_)
FSumSeq(s) == IF s = <<>> THEN FInt(0) ELSE FAdd(Head(s), FSumSeq(Tail(s)))

NotNaN(x) == ~IsNaN(x)

\* Series.sum(), Series.mean(), Series.max(): pandas skips NaN entries.
ColSum(s) == FSumSeq(SelectSeq(s, NotNaN))

ColMean(s) ==
    LET v == SelectSeq(s, NotNaN)
    IN  IF v = <<>> THEN NaN ELSE FDiv(FSumSeq(v), FInt(Len(v)))

RECURSIVE FMaxSeq(_)
FMaxSeq(s) ==
    IF Len(s) = 1 THEN Head(s)
    ELSE LET m == FMaxSeq(Tail(s)) IN IF FGt(m, Head(s)) THEN m ELSE Head(s)

ColMax(s) ==
    LET v == SelectSeq(s, NotNaN)
    IN  IF v = <<>> THEN NaN ELSE FMaxSeq(v)

\* A column of a DataFrame.
Col(rows, name) == [i \in DOMAIN rows |-> rows[i][name]]

\* (column == True).sum() and Series.any() for a boolean column.
CountTrue(s) == Cardinality({i \in DOMAIN s : s[i]})

AnyTrue(s) == \E i \in DOMAIN s : s[i]

-----------------------------------------------------------------------------
(* Configuration: the dictionary the YAML loader or _get_default_config    *)
(* returns.  A key the dictionary lacks is a field the record lacks.       *)

\* config[p1][p2]... exists.
RECURSIVE HasPath(_, _)
HasPath(c, p) ==
    IF p = <<>> THEN TRUE
    ELSE Head(p) \in DOMAIN c /\ HasPath(c[Head(p)], Tail(p))

\* The rating-weight table of _get_default_config (in hundredths: AA is 0.2).
DefaultRatingWeights ==
    [AAA |-> Frac(0, 1), AA |-> Frac(2, 10), A |-> Frac(5, 10), BBB |-> Frac(1, 1),
     BB |-> Frac(2, 1), B |-> Frac(3, 1), CCC |-> Frac(5, 1), CC |-> Frac(10, 1),
     C |-> Frac(15, 1), D |-> Frac(100, 1)]

\* The rating grades in the order of the weight table, best first.
RatingGrades == <<"AAA", "AA", "A", "BBB", "BB", "B", "CCC", "CC", "C", "D">>

\* What _get_default_config returns when the configuration file is not found.
DefaultConfig ==
    [credit_risk |-> [rating_weights |-> DefaultRatingWeights],
     market_risk |-> [collateral |-> [max_volatility_pct |-> Frac(15, 1),
                                      min_liquidity_score |-> Frac(7, 10)]]]

\* A complete configuration file, with threshold rating t and concentration limit l.
FullConfig(t, l) ==
    [credit_risk |->
        [rating_weights |-> DefaultRatingWeights,
         high_risk_rating_threshold |-> t,
         concentration |-> [single_counterparty_limit_pct |-> l]],
     market_risk |->
        [haircut |-> [max_haircut_pct |-> Frac(25, 1)],
         specialness |-> [max_specialness_bp |-> Frac(100, 1)]],
     liquidity_risk |->
        [encumbrance |-> [max_encumbrance_days |-> Frac(30, 1)],
         margin_calls |-> [max_mild_margin_call_musd |-> Frac(10, 1),
                           max_severe_margin_call_musd |-> Frac(20, 1)]],
     term_risk |-> [maturity |-> [max_term_days |-> Frac(365, 1)]],
     stress_testing |->
        [stress_factors |-> [mild_stress |-> Frac(3, 2), severe_stress |-> Frac(2, 1)]],
     composite_risk |->
        [weights |-> [credit_risk |-> Frac(30, 100), market_risk |-> Frac(25, 100),
                      liquidity_risk |-> Frac(20, 100),
                      operational_risk |-> Frac(15, 100), term_risk |-> Frac(10, 100)],
         score_thresholds |-> [low_risk |-> Frac(3, 10), medium_risk |-> Frac(5, 10),
                               high_risk |-> Frac(7, 10), critical_risk |-> Frac(9, 10)]]]

BaseConfig == FullConfig("BB", Frac(60, 1))

\* A configuration file whose score_thresholds lack the critical_risk entry.
NoCriticalConfig ==
    [BaseConfig EXCEPT !.composite_risk.score_thresholds =
        [low_risk |-> Frac(3, 10), medium_risk |-> Frac(5, 10), high_risk |-> Frac(7, 10)]]

Configs == {BaseConfig, DefaultConfig, NoCriticalConfig}

-----------------------------------------------------------------------------
(* Trade records: the rows load_data reads.                                *)

\* The risk inputs of a trade with no risk, with liquidity risk only, and
\* with every input at or past its configured maximum.
RiskInputs(kind) ==
    LET hot == kind = "stressed"
        dry == kind \in {"illiquid", "stressed"}
    IN  [haircut_pct |-> IF hot THEN Frac(25, 1) ELSE Frac(0, 1),
         specialness_bp |-> IF hot THEN Frac(100, 1) ELSE Frac(0, 1),
         collateral_liquidity_score |-> IF hot THEN Frac(0, 1) ELSE Frac(1, 1),
         collateral_price_vol_20d_pct |-> IF hot THEN Frac(100, 1) ELSE Frac(0, 1),
         collateral_duration_years |-> IF hot THEN Frac(10, 1) ELSE Frac(1, 1),
         encumbrance_days |-> IF dry THEN Frac(45, 1) ELSE Frac(0, 1),
         margin_call_mild_musd |-> IF dry THEN Frac(10, 1) ELSE Frac(0, 1),
         margin_call_severe_musd |-> IF dry THEN Frac(20, 1) ELSE Frac(0, 1),
         wrong_way_risk_flag |-> IF hot THEN 1 ELSE 0,
         cross_ccy_flag |-> IF hot THEN 1 ELSE 0,
         ccp_cleared_flag |-> IF hot THEN 0 ELSE 1,
         days_to_maturity |-> IF hot THEN Frac(400, 1) ELSE Frac(0, 1),
         term_type |-> IF hot THEN "Open" ELSE "Term",
         collateral_hqla_level |-> IF hot THEN "L2B" ELSE "L1",
         currency |-> IF hot THEN "EUR" ELSE "USD",
         jurisdiction |-> IF hot THEN "UK" ELSE "US"]

Trade(cp, rating, notional, kind) ==
    [counterparty_type |-> cp, counterparty_rating |-> rating,
     notional_musd |-> Frac(notional, 1)] @@ RiskInputs(kind)

\* The trades the portfolios are drawn from.
TradeBook ==
    << Trade("Bank", "D", 300, "benign"),
       Trade("Bank", "D", 0, "stressed"),
       Trade("Dealer", "D", 100, "illiquid"),
       Trade("Dealer", "AAA", 100, "benign") >>

\* The trade lists of at most MaxTrades rows: each trade of the book at most
\* once, in the order of the book.
RECURSIVE BookPicks(_)
BookPicks(k) ==
    IF k = 0 THEN {<<>>}
    ELSE LET shorter == BookPicks(k - 1)
         IN  shorter \cup
             {Append(p, i) : p \in {q \in shorter : Len(q) = k - 1}, i \in DOMAIN TradeBook}

IsOrdered(p) == \A i \in 1..(Len(p) - 1) : p[i] < p[i + 1]

Portfolios ==
    {[i \in DOMAIN p |-> TradeBook[p[i]]] : p \in {q \in BookPicks(MaxTrades) : IsOrdered(q)}}

-----------------------------------------------------------------------------
(* RepoDataProcessor.derive_risk_fields and its seven stages.              *)

\* The code points of the rating strings (ord of each character).
CodePoints ==
    [AAA |-> <<65, 65, 65>>, AA |-> <<65, 65>>, A |-> <<65>>,
     BBB |-> <<66, 66, 66>>, BB |-> <<66, 66>>, B |-> <<66>>,
     CCC |-> <<67, 67, 67>>, CC |-> <<67, 67>>, C |-> <<67>>,
     D |-> <<68>>, NR |-> <<78, 82>>]

\* Python's a <= b on strings: lexicographic by code point, a prefix first.
RECURSIVE LexLe(_, _)
LexLe(a, b) ==
    IF a = <<>> THEN TRUE
    ELSE IF b = <<>> THEN FALSE
    ELSE IF Head(a) < Head(b) THEN TRUE
    ELSE IF Head(a) > Head(b) THEN FALSE
    ELSE LexLe(Tail(a), Tail(b))

\* rating >= threshold as the string comparison of the rating column does it.
StrGe(a, b) == LexLe(CodePoints[b], CodePoints[a])

\* Series.map(dict): a key the dictionary lacks maps to NaN.
MapRating(table, rating) == IF rating \in DOMAIN table THEN table[rating] ELSE NaN

\* A walk that puts a score equal to a threshold in the bucket above it.
AssignRiskCategory_Exclusive(thresholds, score) ==
    IF FGt(thresholds.low_risk, score) THEN "Low"
    ELSE IF FGt(thresholds.medium_risk, score) THEN "Medium"
    ELSE IF FGt(thresholds.high_risk, score) THEN "High"
    ELSE "Critical"

\* A walk that labels the second bucket High and the third Medium.
AssignRiskCategory_Swapped(thresholds, score) ==
    IF FLe(score, thresholds.low_risk) THEN "Low"
    ELSE IF FLe(score, thresholds.medium_risk) THEN "High"
    ELSE IF FLe(score, thresholds.high_risk) THEN "Medium"
    ELSE "Critical"

\* assign_risk_category: the thresholds are looked up only as far as the walk gets.
AssignRiskCategory(thresholds, score) ==
    IF FLe(score, thresholds.low_risk) THEN "Low"
    ELSE IF FLe(score, thresholds.medium_risk) THEN "Medium"
    ELSE IF FLe(score, thresholds.high_risk) THEN "High"
    ELSE "Critical"

\* The threshold keys assign_risk_category reads for a score, in order.
CategoryKeysRead(thresholds, score) ==
    IF "low_risk" \notin DOMAIN thresholds THEN {"low_risk"}
    ELSE IF FLe(score, thresholds.low_risk) THEN {"low_risk"}
    ELSE IF "medium_risk" \notin DOMAIN thresholds THEN {"low_risk", "medium_risk"}
    ELSE IF FLe(score, thresholds.medium_risk) THEN {"low_risk", "medium_risk"}
    ELSE {"low_risk", "medium_risk", "high_risk"}

\* The value a stage assigns to a column of one row.
ColumnValue(name, cfg, r) ==
    CASE name = "rating_risk_weight" ->
            MapRating(cfg.credit_risk.rating_weights, r.counterparty_rating)
      [] name = "credit_risk_score" -> FDiv(r.rating_risk_weight, FInt(100))
      [] name = "high_risk_rating_flag" ->
            StrGe(r.counterparty_rating, cfg.credit_risk.high_risk_rating_threshold)
      [] name = "credit_adjusted_exposure" ->
            FMul(r.notional_musd, FAdd(FInt(1), r.credit_risk_score))
      [] name = "collateral_quality_score" ->
            FAdd(FAdd(FMul(r.collateral_liquidity_score, Frac(4, 10)),
                      FMul(FSub(FInt(1), FDiv(r.collateral_price_vol_20d_pct, FInt(100))),
                           Frac(3, 10))),
                 FMul(AsInt(FLe(r.collateral_duration_years, FInt(5))), Frac(3, 10)))
      [] name = "haircut_risk_score" ->
            FDiv(r.haircut_pct, cfg.market_risk.haircut.max_haircut_pct)
      [] name = "specialness_risk_score" ->
            FDiv(r.specialness_bp, cfg.market_risk.specialness.max_specialness_bp)
      [] name = "market_risk_score" ->
            FAdd(FAdd(FMul(FSub(FInt(1), r.collateral_quality_score), Frac(4, 10)),
                      FMul(r.haircut_risk_score, Frac(3, 10))),
                 FMul(r.specialness_risk_score, Frac(3, 10)))
      [] name = "encumbrance_risk_score" ->
            ClipUpper(FDiv(r.encumbrance_days,
                           cfg.liquidity_risk.encumbrance.max_encumbrance_days), FInt(1))
      [] name = "margin_call_risk_score" ->
            ClipUpper(
                FAdd(FMul(FDiv(r.margin_call_mild_musd,
                               cfg.liquidity_risk.margin_calls.max_mild_margin_call_musd),
                          Frac(5, 10)),
                     FMul(FDiv(r.margin_call_severe_musd,
                               cfg.liquidity_risk.margin_calls.max_severe_margin_call_musd),
                          Frac(5, 10))),
                FInt(1))
      [] name = "liquidity_risk_score" ->
            FAdd(FMul(r.encumbrance_risk_score, Frac(6, 10)),
                 FMul(r.margin_call_risk_score, Frac(4, 10)))
      [] name = "wrong_way_risk_score" -> FInt(r.wrong_way_risk_flag)
      [] name = "cross_currency_risk_score" -> FInt(r.cross_ccy_flag)
      [] name = "ccp_clearing_risk_score" -> FInt(1 - r.ccp_cleared_flag)
      [] name = "operational_risk_score" ->
            FAdd(FAdd(FMul(r.wrong_way_risk_score, Frac(4, 10)),
                      FMul(r.cross_currency_risk_score, Frac(3, 10))),
                 FMul(r.ccp_clearing_risk_score, Frac(3, 10)))
      [] name = "maturity_risk_score" ->
            ClipUpper(FDiv(r.days_to_maturity, cfg.term_risk.maturity.max_term_days),
                      FInt(1))
      [] name = "open_repo_risk_score" -> AsInt(r.term_type = "Open")
      [] name = "term_risk_score" ->
            FAdd(FMul(r.maturity_risk_score, Frac(7, 10)),
                 FMul(r.open_repo_risk_score, Frac(3, 10)))
      [] name = "mild_stress_exposure" ->
            FMul(r.notional_musd, cfg.stress_testing.stress_factors.mild_stress)
      [] name = "severe_stress_exposure" ->
            FMul(r.notional_musd, cfg.stress_testing.stress_factors.severe_stress)
      [] name = "mild_stress_risk_score" ->
            ClipUpper(FMul(r.credit_risk_score,
                           cfg.stress_testing.stress_factors.mild_stress), FInt(1))
      [] name = "severe_stress_risk_score" ->
            ClipUpper(FMul(r.credit_risk_score,
                           cfg.stress_testing.stress_factors.severe_stress), FInt(1))
      [] name = "composite_risk_score" ->
            LET w == cfg.composite_risk.weights
            IN  FAdd(FAdd(FAdd(FAdd(FMul(r.credit_risk_score, w.credit_risk),
                                    FMul(r.market_risk_score, w.market_risk)),
                               FMul(r.liquidity_risk_score, w.liquidity_risk)),
                          FMul(r.operational_risk_score, w.operational_risk)),
                     FMul(r.term_risk_score, w.term_risk))
      [] name = "risk_category" ->
            AssignRiskCategory(cfg.composite_risk.score_thresholds, r.composite_risk_score)

\* A configuration lookup of a stage, and a column assignment of a stage.
Lookup(path) == [kind |-> "lookup", path |-> path, column |-> ""]

Assign(name) == [kind |-> "assign", path |-> <<>>, column |-> name]

\* The statements of the seven stages, in the order derive_risk_fields runs them.
DeriveSteps ==
    << Lookup(<<"credit_risk", "rating_weights">>),
       Assign("rating_risk_weight"),
       Assign("credit_risk_score"),
       Lookup(<<"credit_risk", "high_risk_rating_threshold">>),
       Assign("high_risk_rating_flag"),
       Assign("credit_adjusted_exposure"),
       Assign("collateral_quality_score"),
       Lookup(<<"market_risk", "haircut", "max_haircut_pct">>),
       Assign("haircut_risk_score"),
       Lookup(<<"market_risk", "specialness", "max_specialness_bp">>),
       Assign("specialness_risk_score"),
       Assign("market_risk_score"),
       Lookup(<<"liquidity_risk", "encumbrance", "max_encumbrance_days">>),
       Assign("encumbrance_risk_score"),
       Lookup(<<"liquidity_risk", "margin_calls", "max_mild_margin_call_musd">>),
       Lookup(<<"liquidity_risk", "margin_calls", "max_severe_margin_call_musd">>),
       Assign("margin_call_risk_score"),
       Assign("liquidity_risk_score"),
       Assign("wrong_way_risk_score"),
       Assign("cross_currency_risk_score"),
       Assign("ccp_clearing_risk_score"),
       Assign("operational_risk_score"),
       Lookup(<<"term_risk", "maturity", "max_term_days">>),
       Assign("maturity_risk_score"),
       Assign("open_repo_risk_score"),
       Assign("term_risk_score"),
       Lookup(<<"stress_testing", "stress_factors", "mild_stress">>),
       Lookup(<<"stress_testing", "stress_factors", "severe_stress">>),
       Assign("mild_stress_exposure"),
       Assign("severe_stress_exposure"),
       Assign("mild_stress_risk_score"),
       Assign("severe_stress_risk_score"),
       Lookup(<<"composite_risk", "weights">>),
       Assign("composite_risk_score"),
       Lookup(<<"composite_risk", "score_thresholds">>),
       Assign("risk_category") >>

\* A statement raises KeyError: a lookup of a missing key, or a column
\* expression that reads a missing weight or threshold.
StepRaises(step, cfg, rows) ==
    IF step.kind = "lookup" THEN ~HasPath(cfg, step.path)
    ELSE CASE step.column = "composite_risk_score" ->
                {"credit_risk", "market_risk", "liquidity_risk", "operational_risk",
                 "term_risk"} \ DOMAIN cfg.composite_risk.weights # {}
           [] step.column = "risk_category" ->
                \E i \in DOMAIN rows :
                    CategoryKeysRead(cfg.composite_risk.score_thresholds,
                                     rows[i].composite_risk_score)
                        \ DOMAIN cfg.composite_risk.score_thresholds # {}
           [] OTHER -> FALSE

\* An assignment that gives every row the value computed for the first row.
AssignColumn_FirstRow(name, cfg, rows) ==
    [i \in DOMAIN rows |-> (name :> ColumnValue(name, cfg, rows[1])) @@ rows[i]]

\* An assignment that clamps the composite score at 1.
AssignColumn_ClampedComposite(name, cfg, rows) ==
    [i \in DOMAIN rows |->
        (name :> IF name = "composite_risk_score"
                 THEN ClipUpper(ColumnValue(name, cfg, rows[i]), FInt(1))
                 ELSE ColumnValue(name, cfg, rows[i])) @@ rows[i]]

\* An assignment that clamps the haircut and specialness ratios at 1.
AssignColumn_ClampedRatios(name, cfg, rows) ==
    [i \in DOMAIN rows |->
        (name :> IF name \in {"haircut_risk_score", "specialness_risk_score"}
                 THEN ClipUpper(ColumnValue(name, cfg, rows[i]), FInt(1))
                 ELSE ColumnValue(name, cfg, rows[i])) @@ rows[i]]

\* An assignment that clamps each half of the margin-call score, not their sum.
AssignColumn_ClampedHalves(name, cfg, rows) ==
    [i \in DOMAIN rows |->
        (name :> IF name = "margin_call_risk_score"
                 THEN FAdd(FMul(ClipUpper(FDiv(rows[i].margin_call_mild_musd,
                                cfg.liquidity_risk.margin_calls.max_mild_margin_call_musd),
                                FInt(1)), Frac(5, 10)),
                           FMul(ClipUpper(FDiv(rows[i].margin_call_severe_musd,
                                cfg.liquidity_risk.margin_calls.max_severe_margin_call_musd),
                                FInt(1)), Frac(5, 10)))
                 ELSE ColumnValue(name, cfg, rows[i])) @@ rows[i]]

\* DataFrame[name] = expression: the column is added to (or replaced in) every row.
AssignColumn(name, cfg, rows) ==
    [i \in DOMAIN rows |-> (name :> ColumnValue(name, cfg, rows[i])) @@ rows[i]]

\* Runs the statements from the k-th on; stops at the first that raises,
\* keeping the columns assigned so far.
RECURSIVE RunSteps(_, _, _)
RunSteps(k, cfg, rows) ==
    IF k > Len(DeriveSteps) THEN [status |-> "ok", rows |-> rows]
    ELSE IF StepRaises(DeriveSteps[k], cfg, rows) THEN [status |-> "KeyError", rows |-> rows]
    ELSE IF DeriveSteps[k].kind = "lookup" THEN RunSteps(k + 1, cfg, rows)
    ELSE RunSteps(k + 1, cfg, AssignColumn(DeriveSteps[k].column, cfg, rows))

\* derive_risk_fields on loaded data d: processed_data is a copy of d that the
\* stages extend in place.
DeriveResult(cfg, d) == RunSteps(1, cfg, d)

-----------------------------------------------------------------------------
(* CounterpartyRiskAnalyzer.                                               *)

\* The counterparty types in sorted order: groupby iterates its keys sorted.
SortedTypes == <<"Bank", "Dealer", "HedgeFund">>

\* The risk categories in sorted order: Series.mode() returns its values sorted.
SortedCategories == <<"Critical", "High", "Low", "Medium">>

Range(s) == {s[i] : i \in DOMAIN s}

Count(s, v) == Cardinality({i \in DOMAIN s : s[i] = v})

\* Series.value_counts().to_dict()
ValueCounts(s) == [v \in Range(s) |-> Count(s, v)]

\* data.groupby('counterparty_type'): the keys present, sorted, and a key's rows.
GroupKeys(rows) ==
    LET Present(cp) == \E i \in DOMAIN rows : rows[i].counterparty_type = cp
    IN  SelectSeq(SortedTypes, Present)

GroupRows(rows, cp) ==
    LET InGroup(r) == r.counterparty_type = cp
    IN  SelectSeq(rows, InGroup)

\* data['risk_category'].mode().iloc[0], 'Medium' when there is no mode.
ModeCategory(cats) ==
    LET best == {c \in Range(cats) : \A o \in Range(cats) : Count(cats, o) <= Count(cats, c)}
        InBest(c) == c \in best
        sorted == SelectSeq(SortedCategories, InBest)
    IN  IF Len(sorted) > 0 THEN sorted[1] ELSE "Medium"

\* A percentage without the zero-guard of the denominator.
PctOf_Unguarded(x, total) == FMul(FDiv(x, total), FInt(100))

\* (x / total * 100) if total > 0 else 0
PctOf(x, total) ==
    IF FGt(total, FInt(0)) THEN FMul(FDiv(x, total), FInt(100)) ELSE FInt(0)

\* (data['composite_risk_score'] > cut).sum()
CountAbove(scores, cut) == Cardinality({i \in DOMAIN scores : FGt(scores[i], cut)})

FlagIf(cond, flag) == IF cond THEN <<flag>> ELSE <<>>

FlagColumnAny(rows, name) == \E i \in DOMAIN rows : rows[i][name] # 0

\* A flag generation that raises the haircut flag when any trade of the group
\* is over 0.8, not the group mean.
GenerateCounterpartyRiskFlags_AnyHaircut(cfg, g, total_exposure, concentration_ratio) ==
    FlagIf(AnyTrue(Col(g, "high_risk_rating_flag")), "HIGH_RISK_RATING")
    \o FlagIf(FGt(ColMean(Col(g, "credit_risk_score")), Frac(7, 10)), "HIGH_CREDIT_RISK")
    \o FlagIf(\E i \in DOMAIN g : FGt(g[i].haircut_risk_score, Frac(8, 10)),
              "HIGH_HAIRCUT_RISK")
    \o FlagIf(FGt(ColMean(Col(g, "specialness_risk_score")), Frac(8, 10)),
              "HIGH_SPECIALNESS_RISK")
    \o FlagIf(FGt(ColMean(Col(g, "encumbrance_risk_score")), Frac(8, 10)),
              "HIGH_ENCUMBRANCE_RISK")
    \o FlagIf(FGt(ColMean(Col(g, "margin_call_risk_score")), Frac(8, 10)),
              "HIGH_MARGIN_CALL_RISK")
    \o FlagIf(FlagColumnAny(g, "wrong_way_risk_flag"), "WRONG_WAY_RISK")
    \o FlagIf(FlagColumnAny(g, "cross_ccy_flag"), "CROSS_CURRENCY_RISK")
    \o FlagIf(FGt(concentration_ratio,
                  cfg.credit_risk.concentration.single_counterparty_limit_pct),
              "HIGH_CONCENTRATION")
    \o FlagIf(FGt(ColMean(Col(g, "term_risk_score")), Frac(8, 10)), "HIGH_TERM_RISK")

\* _generate_counterparty_risk_flags
GenerateCounterpartyRiskFlags(cfg, g, total_exposure, concentration_ratio) ==
    FlagIf(AnyTrue(Col(g, "high_risk_rating_flag")), "HIGH_RISK_RATING")
    \o FlagIf(FGt(ColMean(Col(g, "credit_risk_score")), Frac(7, 10)), "HIGH_CREDIT_RISK")
    \o FlagIf(FGt(ColMean(Col(g, "haircut_risk_score")), Frac(8, 10)), "HIGH_HAIRCUT_RISK")
    \o FlagIf(FGt(ColMean(Col(g, "specialness_risk_score")), Frac(8, 10)),
              "HIGH_SPECIALNESS_RISK")
    \o FlagIf(FGt(ColMean(Col(g, "encumbrance_risk_score")), Frac(8, 10)),
              "HIGH_ENCUMBRANCE_RISK")
    \o FlagIf(FGt(ColMean(Col(g, "margin_call_risk_score")), Frac(8, 10)),
              "HIGH_MARGIN_CALL_RISK")
    \o FlagIf(FlagColumnAny(g, "wrong_way_risk_flag"), "WRONG_WAY_RISK")
    \o FlagIf(FlagColumnAny(g, "cross_ccy_flag"), "CROSS_CURRENCY_RISK")
    \o FlagIf(FGt(concentration_ratio,
                  cfg.credit_risk.concentration.single_counterparty_limit_pct),
              "HIGH_CONCENTRATION")
    \o FlagIf(FGt(ColMean(Col(g, "term_risk_score")), Frac(8, 10)), "HIGH_TERM_RISK")

\* The concentration ratio _create_counterparty_profile computes: the group's
\* exposure against total_portfolio, which there is the sum over the group's own rows.
GroupConcentrationRatio(g) ==
    LET total_exposure == ColSum(Col(g, "notional_musd"))
        total_portfolio == ColSum(Col(g, "notional_musd"))
    IN  PctOf(total_exposure, total_portfolio)

\* _create_counterparty_profile
CreateCounterpartyProfile(cfg, cp, g) ==
    LET total_exposure == ColSum(Col(g, "notional_musd"))
        composite == Col(g, "composite_risk_score")
        concentration_ratio == GroupConcentrationRatio(g)
    IN  [counterparty_type |-> cp,
         total_exposure |-> total_exposure,
         trade_count |-> Len(g),
         average_risk_score |-> ColMean(composite),
         max_risk_score |-> ColMax(composite),
         risk_category |-> ModeCategory(Col(g, "risk_category")),
         credit_risk_score |-> ColMean(Col(g, "credit_risk_score")),
         market_risk_score |-> ColMean(Col(g, "market_risk_score")),
         liquidity_risk_score |-> ColMean(Col(g, "liquidity_risk_score")),
         operational_risk_score |-> ColMean(Col(g, "operational_risk_score")),
         term_risk_score |-> ColMean(Col(g, "term_risk_score")),
         concentration_ratio |-> concentration_ratio,
         high_risk_trades |-> CountAbove(composite, Frac(7, 10)),
         critical_risk_trades |-> CountAbove(composite, Frac(9, 10)),
         risk_flags |->
            GenerateCounterpartyRiskFlags(cfg, g, total_exposure, concentration_ratio)]

\* _create_counterparty_profile raises KeyError: its flag generation reads the
\* single-counterparty limit.
CreateProfileRaises(cfg) ==
    ~HasPath(cfg, <<"credit_risk", "concentration", "single_counterparty_limit_pct">>)

\* The eight criteria of _is_high_risk_counterparty, in the order of risk_criteria.
RiskCriteria(cfg, profile) ==
    << FGt(profile.average_risk_score, cfg.composite_risk.score_thresholds.high_risk),
       FGt(profile.max_risk_score, cfg.composite_risk.score_thresholds.critical_risk),
       FGt(profile.concentration_ratio,
           cfg.credit_risk.concentration.single_counterparty_limit_pct),
       FGt(FInt(profile.high_risk_trades), FMul(FInt(profile.trade_count), Frac(3, 10))),
       profile.critical_risk_trades > 0,
       FGt(profile.credit_risk_score, Frac(7, 10)),
       FGt(profile.market_risk_score, Frac(7, 10)),
       FGt(profile.liquidity_risk_score, Frac(7, 10)) >>

\* A vote that two criteria carry.
IsHighRiskCounterparty_TwoVotes(cfg, profile) ==
    CountTrue(RiskCriteria(cfg, profile)) >= 2

\* sum(risk_criteria) >= 3
IsHighRiskCounterparty(cfg, profile) == CountTrue(RiskCriteria(cfg, profile)) >= 3

\* _is_high_risk_counterparty raises KeyError: a threshold it reads is missing.
IsHighRiskRaises(cfg) ==
    \/ ~HasPath(cfg, <<"composite_risk", "score_thresholds", "high_risk">>)
    \/ ~HasPath(cfg, <<"composite_risk", "score_thresholds", "critical_risk">>)
    \/ ~HasPath(cfg, <<"credit_risk", "concentration", "single_counterparty_limit_pct">>)

\* A store that keeps only the profile of the group at hand.
StoreProfile_OnlyLatest(profiles, cp, profile) == (cp :> profile)

\* A store that adds the trades of a profile already held for the type.
StoreProfile_Accumulates(profiles, cp, profile) ==
    IF cp \in DOMAIN profiles
    THEN (cp :> [profile EXCEPT !.trade_count = @ + profiles[cp].trade_count]) @@ profiles
    ELSE (cp :> profile) @@ profiles

\* self.counterparty_profiles[counterparty_type] = profile
StoreProfile(profiles, cp, profile) == (cp :> profile) @@ profiles

\* The rest of one loop iteration once the vote is in: the type is appended
\* to high_risk_counterparties when the verdict is true.
RecordVerdict(cp, profile, verdict, st) ==
    [status |-> "ok",
     profiles |-> StoreProfile(st.profiles, cp, profile),
     high |-> IF verdict THEN Append(st.high, cp) ELSE st.high,
     log |-> (cp :> [profile |-> profile, verdict |-> verdict]) @@ st.log]

\* One iteration of the loop of analyze_counterparties, from the profile
\* _create_counterparty_profile returned: store it, then vote.
AnalyzeGroup(cfg, cp, profile, st) ==
    IF IsHighRiskRaises(cfg)
    THEN [st EXCEPT !.status = "KeyError", !.profiles = StoreProfile(st.profiles, cp, profile)]
    ELSE RecordVerdict(cp, profile, IsHighRiskCounterparty(cfg, profile), st)

\* The loop of analyze_counterparties over the group keys, from analyzer
\* state st; it stops at the first group whose analysis raises.
RECURSIVE AnalyzeGroups(_, _, _, _)
AnalyzeGroups(keys, cfg, rows, st) ==
    IF keys = <<>> \/ st.status # "ok" THEN st
    ELSE IF CreateProfileRaises(cfg) THEN [st EXCEPT !.status = "KeyError"]
    ELSE AnalyzeGroups(Tail(keys), cfg, rows,
             AnalyzeGroup(cfg, Head(keys),
                 CreateCounterpartyProfile(cfg, Head(keys), GroupRows(rows, Head(keys))),
                 st))

\* counterparty_exposures.head(5)
TopN == 5

\* groupby('counterparty_type')['notional_musd'].sum(): key and exposure per group.
CounterpartyExposures(rows) ==
    LET keys == GroupKeys(rows)
    IN  [i \in DOMAIN keys |->
            [key |-> keys[i],
             exposure |-> ColSum(Col(GroupRows(rows, keys[i]), "notional_musd"))]]

\* sort_values(ascending=False): the largest first, equal exposures in group order.
RECURSIVE SortDescending(_)
SortDescending(s) ==
    IF s = <<>> THEN <<>>
    ELSE LET top == CHOOSE i \in DOMAIN s :
                        /\ \A j \in DOMAIN s : ~FGt(s[j].exposure, s[i].exposure)
                        /\ \A j \in 1..(i - 1) : FGt(s[i].exposure, s[j].exposure)
             rest == [j \in 1..(Len(s) - 1) |-> IF j < top THEN s[j] ELSE s[j + 1]]
         IN  <<s[top]>> \o SortDescending(rest)

\* A share that is not squared.
Square_Identity(x) == x

\* (counterparty_exposures / total_exposure) ** 2, one share's square.
Square(x) == FMul(x, x)

\* The metrics of _calculate_concentration_metrics from the sorted exposures
\* and their sum.
ConcentrationMetrics(sorted, exposures, total_exposure) ==
    [top_5_concentration_pct |->
        PctOf(ColSum(SubSeq(exposures, 1, IF Len(exposures) < TopN
                                          THEN Len(exposures) ELSE TopN)),
              total_exposure),
     herfindahl_hirschman_index |->
        IF FGt(total_exposure, FInt(0))
        THEN ColSum([i \in DOMAIN exposures |-> Square(FDiv(exposures[i], total_exposure))])
        ELSE FInt(0),
     largest_counterparty_pct |->
        IF FGt(total_exposure, FInt(0)) THEN PctOf(exposures[1], total_exposure)
        ELSE FInt(0),
     largest_counterparty |-> IF Len(sorted) > 0 THEN sorted[1].key ELSE None]

ExposuresOf(sorted) == [i \in DOMAIN sorted |-> sorted[i].exposure]

SortedMetrics(sorted) ==
    ConcentrationMetrics(sorted, ExposuresOf(sorted), ColSum(ExposuresOf(sorted)))

\* _calculate_concentration_metrics
CalculateConcentrationMetrics(rows) ==
    SortedMetrics(SortDescending(CounterpartyExposures(rows)))

\* data[data['composite_risk_score'] > cut]['notional_musd'].sum()
ExposureAbove(rows, cut) ==
    LET Above(r) == FGt(r.composite_risk_score, cut)
    IN  ColSum(Col(SelectSeq(rows, Above), "notional_musd"))

\* The dictionary _calculate_portfolio_aggregates stores in risk_aggregates.
PortfolioAggregates(rows) ==
    LET total_portfolio == ColSum(Col(rows, "notional_musd"))
        composite == Col(rows, "composite_risk_score")
    IN  [total_portfolio_exposure |-> total_portfolio,
         total_trades |-> Len(rows),
         unique_counterparties |-> Cardinality(Range(Col(rows, "counterparty_type"))),
         portfolio_average_risk_score |-> ColMean(composite),
         portfolio_max_risk_score |-> ColMax(composite),
         high_risk_exposure |-> ExposureAbove(rows, Frac(7, 10)),
         critical_risk_exposure |-> ExposureAbove(rows, Frac(9, 10)),
         high_risk_exposure_pct |-> PctOf(ExposureAbove(rows, Frac(7, 10)), total_portfolio),
         critical_risk_exposure_pct |->
            PctOf(ExposureAbove(rows, Frac(9, 10)), total_portfolio),
         risk_distribution |-> ValueCounts(Col(rows, "risk_category")),
         counterparty_concentration |-> CalculateConcentrationMetrics(rows),
         collateral_quality_distribution |-> ValueCounts(Col(rows, "collateral_hqla_level")),
         currency_distribution |-> ValueCounts(Col(rows, "currency")),
         jurisdiction_distribution |-> ValueCounts(Col(rows, "jurisdiction"))]

\* Aggregates that leave the stored profiles as the loop left them.
UpdateConcentrationRatios_Skipped(profiles, total_portfolio) == profiles

\* The loop that ends _calculate_portfolio_aggregates: every stored profile's
\* concentration_ratio is overwritten with its share of the portfolio total.
UpdateConcentrationRatios(profiles, total_portfolio) ==
    [cp \in DOMAIN profiles |->
        [profiles[cp] EXCEPT !.concentration_ratio =
            PctOf(profiles[cp].total_exposure, total_portfolio)]]

\* Flags whose concentration flag comes without a recommendation.
GenerateRiskFlags_NoAdvice(aggs, high) ==
    [critical_flags |->
        FlagIf(FGt(aggs.counterparty_concentration.herfindahl_hirschman_index,
                   Frac(25, 100)),
               "HIGH_PORTFOLIO_CONCENTRATION"),
     high_flags |-> <<>>,
     medium_flags |-> <<>>,
     recommendations |-> <<>>]

\* _generate_risk_flags
GenerateRiskFlags(aggs, high) ==
    LET critical_exposure == FGt(aggs.critical_risk_exposure_pct, FInt(10))
        concentrated ==
            FGt(aggs.counterparty_concentration.herfindahl_hirschman_index, Frac(25, 100))
        high_exposure == FGt(aggs.high_risk_exposure_pct, FInt(25))
        many_high == Len(high) > 3
        score_elevated == FGt(aggs.portfolio_average_risk_score, Frac(5, 10))
        top_5 == FGt(aggs.counterparty_concentration.top_5_concentration_pct, FInt(60))
    IN  [critical_flags |->
            FlagIf(critical_exposure, "CRITICAL_RISK_EXPOSURE_HIGH")
            \o FlagIf(concentrated, "HIGH_PORTFOLIO_CONCENTRATION"),
         high_flags |->
            FlagIf(high_exposure, "HIGH_RISK_EXPOSURE_ELEVATED")
            \o FlagIf(many_high, "MULTIPLE_HIGH_RISK_COUNTERPARTIES"),
         medium_flags |->
            FlagIf(score_elevated, "PORTFOLIO_RISK_SCORE_ELEVATED")
            \o FlagIf(top_5, "TOP_5_CONCENTRATION_HIGH"),
         recommendations |->
            FlagIf(critical_exposure, "Immediately reduce exposure to critical risk trades")
            \o FlagIf(concentrated,
                      "Diversify counterparty exposure to reduce concentration risk")
            \o FlagIf(high_exposure, "Review and potentially reduce high-risk exposures")
            \o FlagIf(many_high,
                      "Review risk management policies for high-risk counterparties")
            \o FlagIf(score_elevated,
                      "Monitor portfolio risk levels and consider risk reduction strategies")
            \o FlagIf(top_5, "Consider diversifying away from top 5 counterparties")]

\* A level whose cut-offs belong to the more severe level.
DeterminePortfolioRiskLevel_Inclusive(aggs) ==
    LET risk_score == aggs.portfolio_average_risk_score
        high_risk_pct == aggs.high_risk_exposure_pct
        critical_risk_pct == aggs.critical_risk_exposure_pct
    IN  IF FGe(risk_score, Frac(8, 10)) \/ FGe(critical_risk_pct, FInt(15)) THEN "CRITICAL"
        ELSE IF FGe(risk_score, Frac(6, 10)) \/ FGe(high_risk_pct, FInt(30)) THEN "HIGH"
        ELSE IF FGe(risk_score, Frac(4, 10)) \/ FGe(high_risk_pct, FInt(15)) THEN "MEDIUM"
        ELSE "LOW"

\* _determine_portfolio_risk_level
DeterminePortfolioRiskLevel(aggs) ==
    LET risk_score == aggs.portfolio_average_risk_score
        high_risk_pct == aggs.high_risk_exposure_pct
        critical_risk_pct == aggs.critical_risk_exposure_pct
    IN  IF FGt(risk_score, Frac(8, 10)) \/ FGt(critical_risk_pct, FInt(15)) THEN "CRITICAL"
        ELSE IF FGt(risk_score, Frac(6, 10)) \/ FGt(high_risk_pct, FInt(30)) THEN "HIGH"
        ELSE IF FGt(risk_score, Frac(4, 10)) \/ FGt(high_risk_pct, FInt(15)) THEN "MEDIUM"
        ELSE "LOW"

\* _generate_summary (without analysis_date, the wall-clock time of the call)
GenerateSummary(profiles, high, aggs) ==
    [total_counterparties |-> Cardinality(DOMAIN profiles),
     high_risk_counterparties |-> Len(high),
     portfolio_risk_level |-> DeterminePortfolioRiskLevel(aggs),
     key_risk_metrics |->
        [average_risk_score |-> aggs.portfolio_average_risk_score,
         high_risk_exposure_pct |-> aggs.high_risk_exposure_pct,
         critical_risk_exposure_pct |-> aggs.critical_risk_exposure_pct,
         concentration_hhi |-> aggs.counterparty_concentration.herfindahl_hirschman_index]]

\* What analyze_counterparties leaves and returns when no group raised: the
\* back-filled profiles, the new aggregates, the flags and the summary.  The
\* returned dictionary's counterparty_profiles, high_risk_counterparties and
\* portfolio_aggregates entries are the analyzer's own fields.
CompletedAnalysis(updated, loop, new_aggs) ==
    [status |-> "ok", profiles |-> updated, high |-> loop.high,
     aggregates |-> new_aggs, log |-> loop.log,
     returned |-> [risk_flags |-> GenerateRiskFlags(new_aggs, loop.high),
                   summary |-> GenerateSummary(updated, loop.high, new_aggs)]]

\* _calculate_portfolio_aggregates: the new aggregates, then the back-fill.
WithAggregates(loop, new_aggs) ==
    CompletedAnalysis(
        UpdateConcentrationRatios(loop.profiles, new_aggs.total_portfolio_exposure),
        loop, new_aggs)

\* analyze_counterparties after its loop ended in state loop: an exception
\* leaves the analyzer as the loop left it, with the old aggregates.
AfterLoop(rows, loop, aggs) ==
    IF loop.status # "ok"
    THEN [status |-> loop.status, profiles |-> loop.profiles, high |-> loop.high,
          aggregates |-> aggs, log |-> loop.log, returned |-> None]
    ELSE WithAggregates(loop, PortfolioAggregates(rows))

\* analyze_counterparties(rows) on an analyzer holding profiles, high and aggs:
\* the analyzer's fields when the call ends, how it ended, and what it returned.
AnalyzeResult(cfg, rows, profiles, high, aggs) ==
    AfterLoop(rows,
              AnalyzeGroups(GroupKeys(rows), cfg, rows,
                  [status |-> "ok", profiles |-> profiles, high |-> high, log |-> <<>>]),
              aggs)

-----------------------------------------------------------------------------
(* The handlers.                                                           *)

\* RepoDataProcessor.__init__ and CounterpartyRiskAnalyzer.__init__ on one configuration.
InitWith(cfg) ==
    /\ config = cfg
    /\ data = None
    /\ processed_data = None
    /\ processor_status = "none"
    /\ counterparty_profiles = <<>>
    /\ high_risk_counterparties = <<>>
    /\ risk_aggregates = <<>>
    /\ analysis_results = None
    /\ analyzer_status = "none"
    /\ analyzed_data = None
    /\ vote_log = <<>>
    /\ n_loads = 0
    /\ n_runs = 0
    /\ last_call = None

Init == \E cfg \in Configs : InitWith(cfg)

\* load_data: self.data is the file's rows.
LoadRows(d) ==
    /\ n_loads < MaxLoads
    /\ data' = Frame(d)
    /\ n_loads' = n_loads + 1
    /\ UNCHANGED <<config, processed_data, processor_status, counterparty_profiles,
                   high_risk_counterparties, risk_aggregates, analysis_results,
                   analyzer_status, analyzed_data, vote_log, n_runs, last_call>>

LoadData == \E d \in Portfolios : LoadRows(d)

\* A derivation without the copy: the stages extend the loaded data itself.
DeriveRiskFields_InPlace ==
    /\ IF data = None
       THEN /\ processor_status' = "ValueError"
            /\ UNCHANGED <<data, processed_data>>
       ELSE \E res \in {DeriveResult(config, data.rows)} :
                /\ processed_data' = Frame(res.rows)
                /\ data' = Frame(res.rows)
                /\ processor_status' = res.status
    /\ UNCHANGED <<config, counterparty_profiles, high_risk_counterparties,
                   risk_aggregates, analysis_results, analyzer_status, analyzed_data,
                   vote_log, n_loads, n_runs, last_call>>

\* derive_risk_fields
DeriveRiskFields ==
    /\ IF data = None
       THEN /\ processor_status' = "ValueError"
            /\ UNCHANGED processed_data
       ELSE \E res \in {DeriveResult(config, data.rows)} :
                /\ processed_data' = Frame(res.rows)
                /\ processor_status' = res.status
    /\ UNCHANGED <<config, data, counterparty_profiles, high_risk_counterparties,
                   risk_aggregates, analysis_results, analyzer_status, analyzed_data,
                   vote_log, n_loads, n_runs, last_call>>

\* analyze_counterparties on the DataFrame derive_risk_fields returned.
AnalyzeCounterparties ==
    /\ processor_status = "ok"
    /\ n_runs < MaxRuns
    /\ \E res \in {AnalyzeResult(config, processed_data.rows, counterparty_profiles,
                                high_risk_counterparties, risk_aggregates)} :
           /\ counterparty_profiles' = res.profiles
           /\ high_risk_counterparties' = res.high
           /\ risk_aggregates' = res.aggregates
           /\ analysis_results' = res.returned
           /\ analyzer_status' = res.status
           /\ vote_log' = res.log
    /\ analyzed_data' = processed_data
    /\ n_runs' = n_runs + 1
    /\ UNCHANGED <<config, data, processed_data, processor_status, n_loads, last_call>>

Next == LoadData \/ DeriveRiskFields \/ AnalyzeCounterparties

Spec == Init /\ [][Next]_vars

\* Derivation alone, for every rating against every threshold rating: one
\* trade per file, rated with a grade of the table or with the unlisted "NR".
RatedRatings == Range(RatingGrades) \cup {"NR"}

InitRating == \E t \in Range(RatingGrades) : InitWith(FullConfig(t, Frac(60, 1)))

\* The files of one trade each, one per rating.
RatedFiles == {<<Trade("Bank", r, 100, "benign")>> : r \in RatedRatings}

LoadRated == \E d \in RatedFiles : LoadRows(d)

NextRating == LoadRated \/ DeriveRiskFields

SpecRating == InitRating /\ [][NextRating]_vars

-----------------------------------------------------------------------------
(* Derivation alone under configurations that differ in a maximum or in    *)
(* the weights, on files of one trade.                                     *)

\* The six configured maxima the stages divide by, as configuration paths.
MaximumPaths ==
    { <<"market_risk", "haircut", "max_haircut_pct">>,
      <<"market_risk", "specialness", "max_specialness_bp">>,
      <<"liquidity_risk", "encumbrance", "max_encumbrance_days">>,
      <<"liquidity_risk", "margin_calls", "max_mild_margin_call_musd">>,
      <<"liquidity_risk", "margin_calls", "max_severe_margin_call_musd">>,
      <<"term_risk", "maturity", "max_term_days">> }

\* A configuration file equal to BaseConfig but for the value v at path p.
ConfigWith(p, v) ==
    [BaseConfig EXCEPT ![p[1]] = [@ EXCEPT ![p[2]] = [@ EXCEPT ![p[3]] = v]]]

\* A configuration file whose composite weights are one half each: they sum to 5/2.
HeavyWeightsConfig ==
    [BaseConfig EXCEPT !.composite_risk.weights =
        [credit_risk |-> Frac(1, 2), market_risk |-> Frac(1, 2),
         liquidity_risk |-> Frac(1, 2), operational_risk |-> Frac(1, 2),
         term_risk |-> Frac(1, 2)]]

ScoringConfigs ==
    {BaseConfig, HeavyWeightsConfig} \cup {ConfigWith(p, FInt(0)) : p \in MaximumPaths}

\* A file of one trade whose haircut is twice and whose specialness is one and
\* a half times the maximum of BaseConfig, with a collateral liquidity score of 2.
OutlierFile ==
    <<[Trade("Bank", "A", 100, "benign") EXCEPT !.haircut_pct = Frac(50, 1),
                                                  !.specialness_bp = Frac(150, 1),
                                                  !.collateral_liquidity_score = Frac(2, 1)]>>

\* Files of one trade: the three kinds of trade, the outlier, a trade whose mild margin call
\* is three times its maximum with no severe margin call, and one whose severe
\* margin call is half its maximum with no mild margin call.
ScoredFiles ==
    { <<Trade("Bank", "D", 100, "benign")>>,
      <<Trade("Bank", "BBB", 100, "illiquid")>>,
      <<Trade("Bank", "D", 100, "stressed")>>,
      <<[Trade("Bank", "A", 100, "benign") EXCEPT !.margin_call_mild_musd = Frac(30, 1)]>>,
      <<[Trade("Bank", "A", 100, "benign") EXCEPT !.margin_call_severe_musd = Frac(10, 1),
                                                  !.encumbrance_days = Frac(15, 1)]>>,
      OutlierFile }

InitScoring == \E cfg \in ScoringConfigs : InitWith(cfg)

LoadScored == \E d \in ScoredFiles : LoadRows(d)

NextScoring == LoadScored \/ DeriveRiskFields

SpecScoring == InitScoring /\ [][NextScoring]_vars

-----------------------------------------------------------------------------
(* assign_risk_category alone: the last statement of                       *)
(* _calculate_composite_risk_score on two scored trades, for every score   *)
(* of a grid against every choice of the three thresholds.                 *)

\* Scores run from 0 to MaxTenths tenths.
MaxTenths == 8

\* The composite scores of the grid, and NaN.
ScoreGrid == {Frac(k, 10) : k \in 0..MaxTenths} \cup {NaN}

\* The values each of low_risk, medium_risk and high_risk takes.
ThresholdGrid == {Frac(3, 10), Frac(5, 10), Frac(7, 10)}

\* A configuration file with the score thresholds l, m and h.
ThresholdConfig(l, m, h) ==
    [BaseConfig EXCEPT !.composite_risk.score_thresholds =
        [low_risk |-> l, medium_risk |-> m, high_risk |-> h, critical_risk |-> Frac(9, 10)]]

\* processed_data before the category is assigned: two trades with their scores.
ScoredRows(s1, s2) == <<[composite_risk_score |-> s1], [composite_risk_score |-> s2]>>

InitCategory ==
    \E l, m, h \in ThresholdGrid : \E s1, s2 \in ScoreGrid :
        /\ config = ThresholdConfig(l, m, h)
        /\ data = None
        /\ processed_data = Frame(ScoredRows(s1, s2))
        /\ processor_status = "scored"
        /\ counterparty_profiles = <<>>
        /\ high_risk_counterparties = <<>>
        /\ risk_aggregates = <<>>
        /\ analysis_results = None
        /\ analyzer_status = "none"
        /\ analyzed_data = None
        /\ vote_log = <<>>
        /\ n_loads = 0
        /\ n_runs = 0
        /\ last_call = None

\* processed_data['risk_category'] = composite_risk_score.apply(assign_risk_category)
AssignCategories ==
    /\ processor_status = "scored"
    /\ processed_data' = Frame(AssignColumn("risk_category", config, processed_data.rows))
    /\ processor_status' = "ok"
    /\ UNCHANGED <<config, data, counterparty_profiles, high_risk_counterparties,
                   risk_aggregates, analysis_results, analyzer_status, analyzed_data,
                   vote_log, n_loads, n_runs, last_call>>

NextCategory == AssignCategories

SpecCategory == InitCategory /\ [][NextCategory]_vars

-----------------------------------------------------------------------------
(* _determine_portfolio_risk_level alone, on aggregates whose mean score   *)
(* and exposure shares lie on, below and above the cut-offs.               *)

\* The exposure shares, in percent: the cut-offs 15 and 30 and their neighbours.
ShareGrid == {FInt(0), FInt(15), FInt(16), FInt(30), FInt(31)}

\* The aggregates the level reads.  Trades scored above 0.9 are scored above
\* 0.7 as well, so the critical share is at most the high share.
LevelAggregates ==
    {[portfolio_average_risk_score |-> s, high_risk_exposure_pct |-> h,
      critical_risk_exposure_pct |-> c] :
        s \in ScoreGrid, h \in ShareGrid, c \in {x \in ShareGrid : FLe(x, FInt(16))}}

InitLevel ==
    \E aggs \in {a \in LevelAggregates :
                    FLe(a.critical_risk_exposure_pct, a.high_risk_exposure_pct)} :
        /\ config = BaseConfig
        /\ data = None
        /\ processed_data = None
        /\ processor_status = "none"
        /\ counterparty_profiles = <<>>
        /\ high_risk_counterparties = <<>>
        /\ risk_aggregates = aggs
        /\ analysis_results = None
        /\ analyzer_status = "aggregated"
        /\ analyzed_data = None
        /\ vote_log = <<>>
        /\ n_loads = 0
        /\ n_runs = 0
        /\ last_call = None

\* 'portfolio_risk_level': self._determine_portfolio_risk_level()
DetermineLevel ==
    /\ analyzer_status = "aggregated"
    /\ analysis_results' =
          [summary |-> [portfolio_risk_level |-> DeterminePortfolioRiskLevel(risk_aggregates)]]
    /\ analyzer_status' = "ok"
    /\ UNCHANGED <<config, data, processed_data, processor_status, counterparty_profiles,
                   high_risk_counterparties, risk_aggregates, analyzed_data, vote_log,
                   n_loads, n_runs, last_call>>

NextLevel == DetermineLevel

SpecLevel == InitLevel /\ [][NextLevel]_vars

-----------------------------------------------------------------------------
(* _calculate_concentration_metrics alone, on the two columns it reads.    *)

\* The most trades of a portfolio of exposures.
MaxExposures == 3

\* The notionals of the exposure rows.
NotionalGrid == {FInt(0), FInt(100), FInt(300)}

\* The rows of the exposure portfolios: a counterparty type and a notional.
ExposureRows ==
    {[counterparty_type |-> cp, notional_musd |-> x] :
        cp \in Range(SortedTypes), x \in NotionalGrid}

\* The portfolios of one to MaxExposures exposure rows.
ExposureFiles ==
    UNION {[1..k -> ExposureRows] : k \in 1..MaxExposures}

InitConcentration ==
    \E rows \in ExposureFiles :
        /\ config = BaseConfig
        /\ data = None
        /\ processed_data = Frame(rows)
        /\ processor_status = "ok"
        /\ counterparty_profiles = <<>>
        /\ high_risk_counterparties = <<>>
        /\ risk_aggregates = <<>>
        /\ analysis_results = None
        /\ analyzer_status = "none"
        /\ analyzed_data = None
        /\ vote_log = <<>>
        /\ n_loads = 0
        /\ n_runs = 0
        /\ last_call = None

\* 'counterparty_concentration': self._calculate_concentration_metrics(data)
CalculateConcentration ==
    /\ analyzer_status = "none"
    /\ risk_aggregates' =
          [counterparty_concentration |-> CalculateConcentrationMetrics(processed_data.rows)]
    /\ analyzed_data' = processed_data
    /\ analyzer_status' = "ok"
    /\ UNCHANGED <<config, data, processed_data, processor_status, counterparty_profiles,
                   high_risk_counterparties, analysis_results, vote_log, n_loads, n_runs, last_call>>

NextConcentration == CalculateConcentration

SpecConcentration == InitConcentration /\ [][NextConcentration]_vars

-----------------------------------------------------------------------------
(* RepoDataProcessor alone: load_data, clean_data, derive_risk_fields and  *)
(* the three accessors of processed_data, called in every order.           *)

\* A trade_date as the file holds it, and as pd.to_datetime gives it.
DateText(text) == [text |-> text]

ToDatetime(v) ==
    IF "text" \notin DOMAIN v THEN v
    ELSE CASE v.text = "2024-01-15" -> [year |-> 2024, month |-> 1, day |-> 15]
           [] v.text = "2024-02-29" -> [year |-> 2024, month |-> 2, day |-> 29]

\* A trade with the two columns clean_data reads beside those of the stages.
DatedTrade(trade, date, repo_rate) ==
    [trade_date |-> DateText(date), repo_rate_pct |-> repo_rate] @@ trade

\* The files: a trade with every risk input at its maximum; two trades, the
\* first with no haircut given, a notional of 0 and a repo rate past 50; and a
\* file without the trade_date and repo_rate_pct columns.
ProcessorFiles ==
    { <<DatedTrade(TradeBook[2], "2024-01-15", Frac(5, 1))>>,
      <<DatedTrade([Trade("Dealer", "A", 0, "benign") EXCEPT !.haircut_pct = NaN],
                   "2024-02-29", Frac(60, 1)),
        DatedTrade(TradeBook[1], "2024-01-15", Frac(5, 1))>>,
      <<TradeBook[3]>> }

\* The columns select_dtypes(include=[np.number]) finds that can hold a missing value.
NumericColumns ==
    {"notional_musd", "repo_rate_pct", "haircut_pct", "specialness_bp",
     "collateral_liquidity_score", "collateral_price_vol_20d_pct",
     "collateral_duration_years", "encumbrance_days", "margin_call_mild_musd",
     "margin_call_severe_musd", "days_to_maturity"}

\* fillna(0) on the numeric columns of a row.
FillNa(r) ==
    [f \in DOMAIN r |->
        IF f \in NumericColumns THEN (IF IsNaN(r[f]) THEN FInt(0) ELSE r[f]) ELSE r[f]]

\* The first two statements of clean_data on a row.
ConvertAndFill(r) == FillNa([r EXCEPT !.trade_date = ToDatetime(@)])

\* The three assignments of _validate_data_ranges on a row.
ValidateDataRanges(r) ==
    [notional_valid |->
        FGt(r.notional_musd, FInt(0)) /\ FGt(FInt(10000), r.notional_musd),
     haircut_valid |-> FGe(r.haircut_pct, FInt(0)) /\ FLe(r.haircut_pct, FInt(50)),
     repo_rate_valid |->
        FGe(r.repo_rate_pct, FInt(0 - 10)) /\ FLe(r.repo_rate_pct, FInt(50))] @@ r

\* The validity columns assigned before the repo-rate check fails on a
\* file without repo_rate_pct.
ValidateUpToRepoRate(r) ==
    [notional_valid |->
        FGt(r.notional_musd, FInt(0)) /\ FGt(FInt(10000), r.notional_musd),
     haircut_valid |-> FGe(r.haircut_pct, FInt(0)) /\ FLe(r.haircut_pct, FInt(50))] @@ r

\* clean_data on loaded rows: self.data is changed in place, up to the
\* statement that raises when a column it reads is not in the file.
CleanResult(rows) ==
    IF \E i \in DOMAIN rows : "trade_date" \notin DOMAIN rows[i]
    THEN [status |-> "KeyError", rows |-> rows]
    ELSE IF \E i \in DOMAIN rows : "repo_rate_pct" \notin DOMAIN rows[i]
    THEN [status |-> "KeyError",
          rows |-> [i \in DOMAIN rows |-> ValidateUpToRepoRate(ConvertAndFill(rows[i]))]]
    ELSE [status |-> "ok",
          rows |-> [i \in DOMAIN rows |-> ValidateDataRanges(ConvertAndFill(rows[i]))]]

\* The outcome of a call: its name, how it ended, and what it returned or wrote.
Outcome(op, status, value) == [op |-> op, status |-> status, value |-> value]

\* The columns get_data_summary reads.
SummaryColumns == {"notional_musd", "counterparty_type", "risk_category",
                   "composite_risk_score"}

\* The dictionary get_data_summary builds.
DataSummary(rows) ==
    [total_trades |-> Len(rows),
     total_notional |-> ColSum(Col(rows, "notional_musd")),
     unique_counterparties |-> Cardinality(Range(Col(rows, "counterparty_type"))),
     risk_distribution |-> ValueCounts(Col(rows, "risk_category")),
     average_risk_score |-> ColMean(Col(rows, "composite_risk_score")),
     high_risk_trades |-> CountAbove(Col(rows, "composite_risk_score"), Frac(7, 10)),
     critical_risk_trades |-> CountAbove(Col(rows, "composite_risk_score"), Frac(9, 10))]

\* The processor's fields and counters a query leaves as they are.
QueryLeaves ==
    UNCHANGED <<config, processed_data, processor_status, counterparty_profiles,
                high_risk_counterparties, risk_aggregates, analysis_results,
                analyzer_status, analyzed_data, vote_log, n_loads, n_runs>>

LoadProcessorFile == \E d \in ProcessorFiles : LoadRows(d)

\* clean_data
CleanData ==
    /\ IF data = None
       THEN /\ last_call' = Outcome("clean_data", "ValueError", None)
            /\ UNCHANGED data
       ELSE \E res \in {CleanResult(data.rows)} :
                /\ data' = Frame(res.rows)
                /\ last_call' = Outcome("clean_data", res.status,
                                        IF res.status = "ok" THEN Frame(res.rows) ELSE None)
    /\ QueryLeaves

\* get_processed_data
GetProcessedData ==
    /\ last_call' = IF processed_data = None
                    THEN Outcome("get_processed_data", "ValueError", None)
                    ELSE Outcome("get_processed_data", "ok", processed_data)
    /\ UNCHANGED data
    /\ QueryLeaves

\* save_processed_data: the value is the rows written to the file.
SaveProcessedData ==
    /\ last_call' = IF processed_data = None
                    THEN Outcome("save_processed_data", "ValueError", None)
                    ELSE Outcome("save_processed_data", "ok", processed_data)
    /\ UNCHANGED data
    /\ QueryLeaves

\* get_data_summary
GetDataSummary ==
    /\ last_call' =
          IF processed_data = None
          THEN Outcome("get_data_summary", "ValueError", None)
          ELSE IF \E i \in DOMAIN processed_data.rows :
                      SummaryColumns \ DOMAIN processed_data.rows[i] # {}
          THEN Outcome("get_data_summary", "KeyError", None)
          ELSE Outcome("get_data_summary", "ok", DataSummary(processed_data.rows))
    /\ UNCHANGED data
    /\ QueryLeaves

InitProcessor == \E cfg \in Configs : InitWith(cfg)

NextProcessor ==
    \/ LoadProcessorFile
    \/ CleanData
    \/ DeriveRiskFields
    \/ GetProcessedData
    \/ SaveProcessedData
    \/ GetDataSummary

SpecProcessor == InitProcessor /\ [][NextProcessor]_vars

-----------------------------------------------------------------------------
(* Properties.                                                             *)

\* The sum of notional over the rows the last analysis was given.
AnalyzedTotal == ColSum(Col(analyzed_data.rows, "notional_musd"))

\* The counterparty types of the rows the last analysis was given.
AnalyzedTypes == Range(Col(analyzed_data.rows, "counterparty_type"))

\* The configured single-counterparty limit and score thresholds.
LimitPct == config.credit_risk.concentration.single_counterparty_limit_pct

Thresholds == config.composite_risk.score_thresholds

\* How many of the eight criteria of the vote hold for a profile p.
CriteriaMet(p) ==
    Cardinality({k \in 1..8 :
        CASE k = 1 -> FGt(p.average_risk_score, Thresholds.high_risk)
          [] k = 2 -> FGt(p.max_risk_score, Thresholds.critical_risk)
          [] k = 3 -> FGt(p.concentration_ratio, LimitPct)
          [] k = 4 -> 10 * p.high_risk_trades > 3 * p.trade_count
          [] k = 5 -> p.critical_risk_trades > 0
          [] k = 6 -> FGt(p.credit_risk_score, Frac(7, 10))
          [] k = 7 -> FGt(p.market_risk_score, Frac(7, 10))
          [] k = 8 -> FGt(p.liquidity_risk_score, Frac(7, 10))})

\* C1: for every profile the vote was called on, the verdict is true if and
\* only if at least 3 of the 8 criteria hold for that profile.
C1_VoteIsThreeOfEight ==
    \A cp \in DOMAIN vote_log :
        vote_log[cp].verdict <=> CriteriaMet(vote_log[cp].profile) >= 3

\* C1 witness: one run voted on a profile meeting exactly 2 criteria (not
\* high-risk) and on a profile meeting exactly 3 (high-risk).
C1_Witness ==
    /\ \E cp \in DOMAIN vote_log :
          CriteriaMet(vote_log[cp].profile) = 2 /\ ~vote_log[cp].verdict
    /\ \E cp \in DOMAIN vote_log :
          CriteriaMet(vote_log[cp].profile) = 3 /\ vote_log[cp].verdict

\* C2: every entry of high_risk_counterparties is a key of counterparty_profiles.
C2_HighRiskHaveProfiles ==
    \A i \in DOMAIN high_risk_counterparties :
        high_risk_counterparties[i] \in DOMAIN counterparty_profiles

\* C2 witness: after two analyses of different files the list names a
\* counterparty type, and not every profiled type is on it.
C2_Witness ==
    /\ n_runs = 2
    /\ n_loads = 2
    /\ analyzed_data # None
    /\ Len(high_risk_counterparties) > 0
    /\ \E cp \in DOMAIN counterparty_profiles : cp \notin Range(high_risk_counterparties)
    /\ \E cp \in DOMAIN counterparty_profiles : cp \notin AnalyzedTypes

\* The raw columns of derived rows: the rows derive_risk_fields copied.
RawRows(rows) ==
    [i \in DOMAIN rows |-> [f \in DOMAIN TradeBook[1] |-> rows[i][f]]]

\* C3: a completed derivation repeated on the same loaded data leaves the same
\* derived rows, and a completed analysis repeated on the same derived rows
\* leaves the same profiles and the same portfolio aggregates.
C3_RerunIsIdentical ==
    [][/\ ( /\ n_loads' = n_loads
            /\ n_runs' = n_runs
            /\ processor_status = "ok"
            /\ processor_status' = "ok"
            /\ RawRows(processed_data.rows) = data.rows )
          => processed_data' = processed_data
       /\ ( /\ n_runs' = n_runs + 1
            /\ analyzer_status = "ok"
            /\ analyzer_status' = "ok"
            /\ analyzed_data = processed_data )
          => /\ counterparty_profiles' = counterparty_profiles
             /\ risk_aggregates' = risk_aggregates]_vars

\* C3 witness: one file was loaded and two analyses of it completed, the
\* second on the rows of the first.
C3_Witness ==
    /\ n_loads = 1
    /\ n_runs = 2
    /\ analyzer_status = "ok"
    /\ Cardinality(DOMAIN counterparty_profiles) = 2
    /\ Len(high_risk_counterparties) > 0

\* C4: when an analysis has returned, every stored profile's concentration
\* ratio is its exposure over the portfolio total times 100, and 0 when the
\* total is not positive.
C4_RatioIsShareOfPortfolio ==
    analyzer_status = "ok" =>
        \A cp \in DOMAIN counterparty_profiles :
            LET p == counterparty_profiles[cp]
            IN  IF FGt(AnalyzedTotal, FInt(0))
                THEN FMul(p.concentration_ratio, AnalyzedTotal)
                         = FMul(FInt(100), p.total_exposure)
                ELSE p.concentration_ratio = FInt(0)

\* C4 witness: an analysis returned with a profile whose share is strictly
\* between 0 and 100 percent, and one left by an earlier analysis of other data.
C4_Witness ==
    /\ analyzer_status = "ok"
    /\ \E cp \in DOMAIN counterparty_profiles :
          /\ FGt(counterparty_profiles[cp].concentration_ratio, FInt(0))
          /\ FGt(FInt(100), counterparty_profiles[cp].concentration_ratio)
    /\ \E cp \in DOMAIN counterparty_profiles : cp \notin AnalyzedTypes

\* C5: the vote reads a profile's concentration ratio after the correction:
\* the ratio each vote of a returned analysis read is the corrected ratio.
C5_VoteReadsCorrectedRatio ==
    analyzer_status = "ok" =>
        \A cp \in DOMAIN vote_log :
            vote_log[cp].profile.concentration_ratio
                = counterparty_profiles[cp].concentration_ratio

\* C6: a profile carries HIGH_CONCENTRATION if and only if its corrected
\* concentration ratio exceeds the single-counterparty limit.
C6_FlagIffCorrectedRatioOverLimit ==
    analyzer_status = "ok" =>
        \A cp \in AnalyzedTypes :
            "HIGH_CONCENTRATION" \in Range(counterparty_profiles[cp].risk_flags)
                <=> FGt(counterparty_profiles[cp].concentration_ratio, LimitPct)

\* C7: a call that raises leaves the state as it was before the call:
\* a failed derive_risk_fields leaves processed_data, a failed
\* analyze_counterparties leaves the analyzer's three fields.
C7_FailedRunLeavesNoState ==
    [][/\ (n_loads' = n_loads /\ n_runs' = n_runs /\ processor_status' # "ok")
          => processed_data' = processed_data
       /\ (n_runs' = n_runs + 1 /\ analyzer_status' # "ok")
          => UNCHANGED <<counterparty_profiles, high_risk_counterparties,
                         risk_aggregates>>]_vars

\* C8: derive_risk_fields never returns derived rows for a trade whose
\* rating is not a key of the rating-weight table.
C8_UnknownRatingRaises ==
    processor_status = "ok" =>
        \A i \in DOMAIN processed_data.rows :
            processed_data.rows[i].counterparty_rating
                \in DOMAIN config.credit_risk.rating_weights

\* The place of a grade in the order of the rating grades.
Ordinal(rating) == CHOOSE k \in DOMAIN RatingGrades : RatingGrades[k] = rating

\* C9: for a trade rated with a grade of the table, high_risk_rating_flag is
\* true exactly when the grade is at or past the threshold grade in the order
\* of the rating grades.
C9_FlagFollowsGradeOrder ==
    processor_status = "ok" =>
        \A i \in DOMAIN processed_data.rows :
            LET r == processed_data.rows[i]
            IN  r.counterparty_rating \in Range(RatingGrades) =>
                    (r.high_risk_rating_flag
                        <=> Ordinal(r.counterparty_rating)
                              >= Ordinal(config.credit_risk.high_risk_rating_threshold))

\* C10: an analysis of a portfolio whose total notional is zero returns, with
\* 0 for every concentration ratio, the HHI, the top-5 and largest-counterparty
\* shares and the high-risk and critical-risk exposure percentages.
C10_ZeroTotalYieldsZeros ==
    (n_runs > 0 /\ AnalyzedTotal = FInt(0) /\ ~IsHighRiskRaises(config)) =>
        /\ analyzer_status = "ok"
        /\ \A cp \in DOMAIN counterparty_profiles :
              counterparty_profiles[cp].concentration_ratio = FInt(0)
        /\ risk_aggregates.counterparty_concentration.herfindahl_hirschman_index = FInt(0)
        /\ risk_aggregates.counterparty_concentration.top_5_concentration_pct = FInt(0)
        /\ risk_aggregates.counterparty_concentration.largest_counterparty_pct = FInt(0)
        /\ risk_aggregates.high_risk_exposure_pct = FInt(0)
        /\ risk_aggregates.critical_risk_exposure_pct = FInt(0)

\* C10 witness: an analysis returned for a portfolio with a trade, a total
\* notional of zero and a trade scored above the critical-risk cut.
C10_Witness ==
    /\ analyzer_status = "ok"
    /\ Len(analyzed_data.rows) > 0
    /\ AnalyzedTotal = FInt(0)
    /\ \E i \in DOMAIN analyzed_data.rows :
          FGt(analyzed_data.rows[i].composite_risk_score, Frac(9, 10))
    /\ \A cp \in DOMAIN counterparty_profiles :
          counterparty_profiles[cp].concentration_ratio = FInt(0)

\* The value of the configuration at a path of three keys.
ConfigAt(p) == config[p[1]][p[2]][p[3]]

\* C11: derive_risk_fields never returns derived rows under a configuration
\* in which a maximum used as a denominator is zero.
C11_ZeroMaximumRaises ==
    processor_status = "ok" => \A p \in MaximumPaths : ConfigAt(p) # FInt(0)

\* The buckets in the order of the walk, each with the threshold that bounds it.
Buckets == <<"Low", "Medium", "High">>

BucketKeys == <<"low_risk", "medium_risk", "high_risk">>

\* The score is at or below the threshold of the k-th bucket.
Within(score, k) ==
    LET t == Thresholds[BucketKeys[k]]
    IN  ~IsNaN(score) /\ (score.n * t.d <= t.n * score.d)

\* The score is above the threshold of the k-th bucket.
Above(score, k) ==
    LET t == Thresholds[BucketKeys[k]]
    IN  ~IsNaN(score) /\ (score.n * t.d > t.n * score.d)

\* C12: a trade's risk_category is the first of Low, Medium, High whose
\* threshold is at or above the score (so a score equal to a threshold is in
\* that threshold's bucket), and Critical when the score is above all three.
C12_CategoryIsFirstBucket ==
    processor_status = "ok" =>
        \A i \in DOMAIN processed_data.rows :
            LET r == processed_data.rows[i]
            IN  /\ \A k \in 1..3 :
                    (Within(r.composite_risk_score, k)
                        /\ \A j \in 1..(k - 1) : ~Within(r.composite_risk_score, j))
                    => r.risk_category = Buckets[k]
                /\ (\A k \in 1..3 : Above(r.composite_risk_score, k))
                    => r.risk_category = "Critical"

\* C12 witness: with thresholds in ascending order, one trade scored exactly
\* at the medium threshold is Medium and one scored above the high threshold
\* is Critical.
C12_Witness ==
    /\ processor_status = "ok"
    /\ "risk_category" \in DOMAIN processed_data.rows[1]
    /\ Thresholds.low_risk = Frac(3, 10)
    /\ Thresholds.medium_risk = Frac(5, 10)
    /\ Thresholds.high_risk = Frac(7, 10)
    /\ processed_data.rows[1].composite_risk_score = Thresholds.medium_risk
    /\ processed_data.rows[1].risk_category = "Medium"
    /\ processed_data.rows[2].composite_risk_score = Frac(8, 10)
    /\ processed_data.rows[2].risk_category = "Critical"

\* The place of a category in the order Low < Medium < High < Critical.
CategoryRank(c) ==
    CASE c = "Low" -> 1 [] c = "Medium" -> 2 [] c = "High" -> 3 [] c = "Critical" -> 4

\* C13: of two trades categorised under the same thresholds, the one with
\* the larger composite score never has the lower category.
C13_CategoryIsMonotone ==
    processor_status = "ok" =>
        \A i, j \in DOMAIN processed_data.rows :
            LET a == processed_data.rows[i]
                b == processed_data.rows[j]
            IN  (/\ ~IsNaN(a.composite_risk_score)
                 /\ ~IsNaN(b.composite_risk_score)
                 /\ a.composite_risk_score.n * b.composite_risk_score.d
                        < b.composite_risk_score.n * a.composite_risk_score.d)
                => CategoryRank(a.risk_category) <= CategoryRank(b.risk_category)

\* C13 witness: two trades with different scores and different categories,
\* the lower score in the lower category.
C13_Witness ==
    /\ processor_status = "ok"
    /\ "risk_category" \in DOMAIN processed_data.rows[1]
    /\ processed_data.rows[1].composite_risk_score = Frac(4, 10)
    /\ processed_data.rows[2].composite_risk_score = Frac(6, 10)
    /\ CategoryRank(processed_data.rows[1].risk_category)
          < CategoryRank(processed_data.rows[2].risk_category)

\* The six portfolio-level flags in the order they are evaluated, each with
\* the list it belongs to and its recommendation.
PortfolioFlags ==
    << [flag |-> "CRITICAL_RISK_EXPOSURE_HIGH", list |-> "critical_flags",
        advice |-> "Immediately reduce exposure to critical risk trades"],
       [flag |-> "HIGH_PORTFOLIO_CONCENTRATION", list |-> "critical_flags",
        advice |-> "Diversify counterparty exposure to reduce concentration risk"],
       [flag |-> "HIGH_RISK_EXPOSURE_ELEVATED", list |-> "high_flags",
        advice |-> "Review and potentially reduce high-risk exposures"],
       [flag |-> "MULTIPLE_HIGH_RISK_COUNTERPARTIES", list |-> "high_flags",
        advice |-> "Review risk management policies for high-risk counterparties"],
       [flag |-> "PORTFOLIO_RISK_SCORE_ELEVATED", list |-> "medium_flags",
        advice |-> "Monitor portfolio risk levels and consider risk reduction strategies"],
       [flag |-> "TOP_5_CONCENTRATION_HIGH", list |-> "medium_flags",
        advice |-> "Consider diversifying away from top 5 counterparties"] >>

\* The k-th flag is in its list of the returned flag set.
Raised(k) ==
    PortfolioFlags[k].flag \in Range(analysis_results.risk_flags[PortfolioFlags[k].list])

\* The recommendations of the raised flags among the first k, in order.
RECURSIVE AdviceUpTo(_)
AdviceUpTo(k) ==
    IF k = 0 THEN <<>>
    ELSE AdviceUpTo(k - 1) \o (IF Raised(k) THEN <<PortfolioFlags[k].advice>> ELSE <<>>)

\* C14: the recommendations of a returned flag set are as many as its
\* critical, high and medium flags together, one per raised flag, in the
\* order the flags are evaluated.
C14_OneRecommendationPerFlag ==
    analyzer_status = "ok" =>
        LET f == analysis_results.risk_flags
        IN  /\ Len(f.recommendations)
                  = Len(f.critical_flags) + Len(f.high_flags) + Len(f.medium_flags)
            /\ f.recommendations = AdviceUpTo(6)

\* C14 witness: an analysis returned a critical, a high and a medium flag.
C14_Witness ==
    /\ analyzer_status = "ok"
    /\ Len(analysis_results.risk_flags.critical_flags) > 0
    /\ Len(analysis_results.risk_flags.high_flags) > 0
    /\ Len(analysis_results.risk_flags.medium_flags) > 0
    /\ Len(analysis_results.risk_flags.recommendations) >= 4

\* The number of counterparties the last analysis classified high-risk.
HighRiskInRun == Cardinality({cp \in DOMAIN vote_log : vote_log[cp].verdict})

\* The condition of the k-th flag on the aggregates of the last analysis.
FlagCondition(k) ==
    LET c == risk_aggregates.counterparty_concentration
    IN  CASE k = 1 -> FGt(risk_aggregates.critical_risk_exposure_pct, FInt(10))
          [] k = 2 -> FGt(c.herfindahl_hirschman_index, Frac(25, 100))
          [] k = 3 -> FGt(risk_aggregates.high_risk_exposure_pct, FInt(25))
          [] k = 4 -> HighRiskInRun > 3
          [] k = 5 -> FGt(risk_aggregates.portfolio_average_risk_score, Frac(5, 10))
          [] k = 6 -> FGt(c.top_5_concentration_pct, FInt(60))

\* C15: each portfolio-level flag of a returned analysis is raised exactly
\* when its condition holds for that run; MULTIPLE_HIGH_RISK_COUNTERPARTIES
\* exactly when that run classified more than 3 counterparties high-risk.
C15_FlagIffCondition ==
    analyzer_status = "ok" => \A k \in 1..6 : Raised(k) <=> FlagCondition(k)

\* x is a number greater than k / 10.
OverTenths(x, k) == ~IsNaN(x) /\ 10 * x.n > k * x.d

ExposureOf(cp) ==
    LET Mine(r) == r.counterparty_type = cp
        mine == SelectSeq(analyzed_data.rows, Mine)
        RECURSIVE Sum(_)
        Sum(k) == IF k = 0 THEN 0 ELSE Sum(k - 1) + mine[k].notional_musd.n
    IN  Sum(Len(mine))

\* The counterparties of the analyzed rows are N, all with the same positive exposure.
EqualSized(N) ==
    /\ Cardinality(AnalyzedTypes) = N
    /\ \A a, b \in AnalyzedTypes : ExposureOf(a) = ExposureOf(b)
    /\ \A a \in AnalyzedTypes : ExposureOf(a) > 0

\* One counterparty of the analyzed rows has a positive exposure, every other none.
OneHoldsAll ==
    \E a \in AnalyzedTypes :
        ExposureOf(a) > 0 /\ \A b \in AnalyzedTypes \ {a} : ExposureOf(b) = 0

HHI == risk_aggregates.counterparty_concentration.herfindahl_hirschman_index

\* C17 as stated: for N equal-sized counterparties the HHI is above 1/N and
\* at most 1, and it is 1 when one counterparty holds all exposure.
C17_HHIAboveReciprocal ==
    analyzer_status = "ok" =>
        /\ \A N \in 1..Len(SortedTypes) :
              EqualSized(N) => (N * HHI.n > HHI.d /\ HHI.n <= HHI.d)
        /\ OneHoldsAll => HHI = FInt(1)

\* C17 amended: for a positive total exposure over N counterparties the HHI
\* is at least 1/N and at most 1; it is exactly 1/N when the N counterparties
\* are equal-sized, and 1 when one counterparty holds all exposure.
C17_HHIFromReciprocalToOne ==
    (analyzer_status = "ok" /\ \E a \in AnalyzedTypes : ExposureOf(a) > 0) =>
        /\ ~IsNaN(HHI)
        /\ Cardinality(AnalyzedTypes) * HHI.n >= HHI.d
        /\ HHI.n <= HHI.d
        /\ \A N \in 1..Len(SortedTypes) : EqualSized(N) => HHI = Frac(1, N)
        /\ OneHoldsAll => HHI = FInt(1)

\* C17 witness: three equal-sized counterparties give an HHI of one third.
C17_Witness ==
    /\ analyzer_status = "ok"
    /\ EqualSized(3)
    /\ HHI = Frac(1, 3)

\* The rows derive_risk_fields returns for a file holding the trade alone.
DerivedAlone(trade) == DeriveResult(config, <<trade>>).rows

\* C18: every derived field of a trade is the one the trade gets when it is
\* derived alone under the same configuration, whatever the other trades of
\* the portfolio are.
C18_DerivedFieldsAreOwn ==
    processor_status = "ok" =>
        \A i \in DOMAIN processed_data.rows :
            \E trade \in Range(TradeBook) :
                /\ \A f \in DOMAIN trade : processed_data.rows[i][f] = trade[f]
                /\ <<processed_data.rows[i]>> = DerivedAlone(trade)

\* C18 witness: a derived portfolio of two trades whose composite scores and
\* categories differ.
C18_Witness ==
    /\ processor_status = "ok"
    /\ Len(processed_data.rows) = 2
    /\ processed_data.rows[1].composite_risk_score
          # processed_data.rows[2].composite_risk_score
    /\ processed_data.rows[1].risk_category # processed_data.rows[2].risk_category

\* min(x, 1.0) for a number x; not-a-number stays as it is.
AtMostOne(x) == IF ~IsNaN(x) /\ x.n > x.d THEN FInt(1) ELSE x

\* The composite weights of the configuration sum to 1.
WeightsSumToOne ==
    LET w == config.composite_risk.weights
    IN  FAdd(FAdd(FAdd(FAdd(w.credit_risk, w.market_risk), w.liquidity_risk),
                  w.operational_risk), w.term_risk) = FInt(1)

\* C19: a trade's composite_risk_score is the sum of its five dimension
\* scores times their configured weights, neither rescaled nor clamped.
C19_CompositeIsWeightedSum ==
    processor_status = "ok" =>
        \A i \in DOMAIN processed_data.rows :
            LET r == processed_data.rows[i]
                w == config.composite_risk.weights
            IN  r.composite_risk_score =
                    FAdd(FMul(r.credit_risk_score, w.credit_risk),
                    FAdd(FMul(r.market_risk_score, w.market_risk),
                    FAdd(FMul(r.liquidity_risk_score, w.liquidity_risk),
                    FAdd(FMul(r.operational_risk_score, w.operational_risk),
                         FMul(r.term_risk_score, w.term_risk)))))

\* C19 witness: under weights that do not sum to 1 a trade's composite score
\* is above 1.
C19_Witness ==
    /\ processor_status = "ok"
    /\ ~WeightsSumToOne
    /\ \E i \in DOMAIN processed_data.rows :
          FGt(processed_data.rows[i].composite_risk_score, FInt(1))

\* C20: margin_call_risk_score is the sum of the two halves clamped once at
\* 1, encumbrance_risk_score is the day ratio clamped at 1, and
\* liquidity_risk_score is 0.6 and 0.4 of them and never exceeds 1.
C20_LiquidityClampedOnce ==
    processor_status = "ok" =>
        \A i \in DOMAIN processed_data.rows :
            LET r == processed_data.rows[i]
                m == config.liquidity_risk.margin_calls
                mild == FDiv(r.margin_call_mild_musd, m.max_mild_margin_call_musd)
                severe == FDiv(r.margin_call_severe_musd, m.max_severe_margin_call_musd)
                days == FDiv(r.encumbrance_days,
                             config.liquidity_risk.encumbrance.max_encumbrance_days)
            IN  /\ r.margin_call_risk_score =
                      AtMostOne(FAdd(FMul(Frac(1, 2), mild), FMul(Frac(1, 2), severe)))
                /\ r.encumbrance_risk_score = AtMostOne(days)
                /\ r.liquidity_risk_score =
                      FAdd(FMul(Frac(6, 10), r.encumbrance_risk_score),
                           FMul(Frac(4, 10), r.margin_call_risk_score))
                /\ ~FGt(r.liquidity_risk_score, FInt(1))

\* C20 witness: a mild margin call of three times its maximum with no severe
\* margin call gives a margin-call score of 1, where the clamped halves
\* would give one half.
C20_Witness ==
    /\ processor_status = "ok"
    /\ config = BaseConfig
    /\ processed_data.rows[1].margin_call_mild_musd = Frac(30, 1)
    /\ processed_data.rows[1].margin_call_severe_musd = FInt(0)
    /\ processed_data.rows[1].margin_call_risk_score = FInt(1)
    /\ processed_data.rows[1].liquidity_risk_score = Frac(4, 10)

\* C21: haircut_risk_score and specialness_risk_score are the plain ratios of
\* the input to its configured maximum and collateral_quality_score is its
\* plain weighted sum, none clamped to [0,1], and market_risk_score is
\* 0.4*(1 - quality) + 0.3*haircut + 0.3*specialness of those unclamped values.
C21_MarketRatiosUnclamped ==
    processor_status = "ok" =>
        \A i \in DOMAIN processed_data.rows :
            LET r == processed_data.rows[i]
                short == IF FLe(r.collateral_duration_years, FInt(5)) THEN FInt(1)
                         ELSE FInt(0)
            IN  /\ r.haircut_risk_score =
                      FDiv(r.haircut_pct, config.market_risk.haircut.max_haircut_pct)
                /\ r.specialness_risk_score =
                      FDiv(r.specialness_bp,
                           config.market_risk.specialness.max_specialness_bp)
                /\ r.collateral_quality_score =
                      FAdd(FMul(Frac(4, 10), r.collateral_liquidity_score),
                      FAdd(FMul(Frac(3, 10),
                                FSub(FInt(1), FDiv(r.collateral_price_vol_20d_pct,
                                                   FInt(100)))),
                           FMul(Frac(3, 10), short)))
                /\ r.market_risk_score =
                      FAdd(FMul(Frac(4, 10), FSub(FInt(1), r.collateral_quality_score)),
                      FAdd(FMul(Frac(3, 10), r.haircut_risk_score),
                           FMul(Frac(3, 10), r.specialness_risk_score)))

\* C21 witness: a haircut of twice and a specialness of one and a half times
\* the maximum give ratios 2 and 3/2, the quality score is 7/5, and the market
\* score carries all three: 0.4*(-2/5) + 0.3*2 + 0.3*3/2 = 89/100.
C21_Witness ==
    /\ processor_status = "ok"
    /\ config = BaseConfig
    /\ data.rows = OutlierFile
    /\ processed_data.rows[1].haircut_risk_score = FInt(2)
    /\ processed_data.rows[1].specialness_risk_score = Frac(3, 2)
    /\ processed_data.rows[1].collateral_quality_score = Frac(7, 5)
    /\ processed_data.rows[1].market_risk_score = Frac(89, 100)

\* The nine per-counterparty flags other than HIGH_CONCENTRATION, in the order
\* they are raised.
GroupFlagOrder ==
    << "HIGH_RISK_RATING", "HIGH_CREDIT_RISK", "HIGH_HAIRCUT_RISK",
       "HIGH_SPECIALNESS_RISK", "HIGH_ENCUMBRANCE_RISK", "HIGH_MARGIN_CALL_RISK",
       "WRONG_WAY_RISK", "CROSS_CURRENCY_RISK", "HIGH_TERM_RISK" >>

\* The analyzed trades of counterparty type cp.
AnalyzedGroup(cp) ==
    LET OfType(r) == r.counterparty_type = cp
    IN  SelectSeq(analyzed_data.rows, OfType)

\* The mean of a score over the analyzed trades of type cp exceeds cut.
GroupMeanOver(cp, name, cut) == FGt(ColMean(Col(AnalyzedGroup(cp), name)), cut)

\* The condition of the k-th flag of GroupFlagOrder for type cp.
GroupFlagCondition(k, cp) ==
    LET g == AnalyzedGroup(cp)
    IN  CASE k = 1 -> \E i \in DOMAIN g : g[i].high_risk_rating_flag
          [] k = 2 -> GroupMeanOver(cp, "credit_risk_score", Frac(7, 10))
          [] k = 3 -> GroupMeanOver(cp, "haircut_risk_score", Frac(8, 10))
          [] k = 4 -> GroupMeanOver(cp, "specialness_risk_score", Frac(8, 10))
          [] k = 5 -> GroupMeanOver(cp, "encumbrance_risk_score", Frac(8, 10))
          [] k = 6 -> GroupMeanOver(cp, "margin_call_risk_score", Frac(8, 10))
          [] k = 7 -> \E i \in DOMAIN g : g[i].wrong_way_risk_flag = 1
          [] k = 8 -> \E i \in DOMAIN g : g[i].cross_ccy_flag = 1
          [] k = 9 -> GroupMeanOver(cp, "term_risk_score", Frac(8, 10))

\* The flags of the profile of type cp that are among the nine.
GroupFlagsHeld(cp) ==
    LET IsOfNine(f) == f \in Range(GroupFlagOrder)
    IN  SelectSeq(counterparty_profiles[cp].risk_flags, IsOfNine)

\* C22: for every counterparty group of a completed analysis, each of the nine
\* flags is in the profile's risk_flags exactly when its condition holds for
\* the group, and the flags held stand in the fixed order, none twice.
C22_GroupFlagsFollowConditions ==
    analyzer_status = "ok" =>
        \A cp \in AnalyzedTypes :
            LET held == GroupFlagsHeld(cp)
                Place(f) == CHOOSE k \in DOMAIN GroupFlagOrder : GroupFlagOrder[k] = f
            IN  /\ \A k \in DOMAIN GroupFlagOrder :
                      GroupFlagOrder[k] \in Range(held) <=> GroupFlagCondition(k, cp)
                /\ \A i, j \in DOMAIN held : i < j => Place(held[i]) < Place(held[j])

\* C22 witness: an analysis of two Bank trades whose haircut, specialness,
\* encumbrance, margin-call and term scores average one half gave the Bank
\* profile the two rating flags and the two flags raised on "any trade", in
\* the fixed order, and none of the flags raised on those means.
C22_Witness ==
    /\ analyzer_status = "ok"
    /\ Len(AnalyzedGroup("Bank")) = 2
    /\ ColMean(Col(AnalyzedGroup("Bank"), "haircut_risk_score")) = Frac(1, 2)
    /\ ColMean(Col(AnalyzedGroup("Bank"), "term_risk_score")) = Frac(1, 2)
    /\ GroupFlagsHeld("Bank") =
          <<"HIGH_RISK_RATING", "HIGH_CREDIT_RISK", "WRONG_WAY_RISK", "CROSS_CURRENCY_RISK">>

\* A profile q is the profile p but for its concentration_ratio.
SameButRatio(p, q) == q = [p EXCEPT !.concentration_ratio = q.concentration_ratio]

\* C23: the configuration never changes; a derive_risk_fields call leaves the
\* loaded data as it was; an analyze_counterparties call leaves the loaded and
\* the processed data as they were, and when it returns, each profile it
\* created and each profile it found differs from what it was when created or
\* found in nothing but its concentration_ratio.
C23_StagesLeavePredecessorOutput ==
    [][/\ config' = config
       /\ (n_loads' = n_loads /\ n_runs' = n_runs) => data' = data
       /\ (n_runs' = n_runs + 1)
          => /\ data' = data
             /\ processed_data' = processed_data
             /\ analyzer_status' = "ok"
                => /\ \A cp \in DOMAIN vote_log' :
                         SameButRatio(vote_log'[cp].profile, counterparty_profiles'[cp])
                   /\ \A cp \in DOMAIN counterparty_profiles \ DOMAIN vote_log' :
                         SameButRatio(counterparty_profiles[cp],
                                      counterparty_profiles'[cp])]_vars

\* C23 witness: a derivation and an analysis have completed; the loaded rows
\* still have only their raw columns while the processed rows have derived
\* ones, and the back-fill changed the ratio of a profile the analysis created.
C23_Witness ==
    /\ processor_status = "ok"
    /\ analyzer_status = "ok"
    /\ analyzed_data = processed_data
    /\ \A i \in DOMAIN data.rows : DOMAIN data.rows[i] = DOMAIN TradeBook[1]
    /\ RawRows(processed_data.rows) = data.rows
    /\ \A i \in DOMAIN processed_data.rows :
          "composite_risk_score" \in DOMAIN processed_data.rows[i]
    /\ \E cp \in DOMAIN vote_log :
          vote_log[cp].profile.concentration_ratio
              # counterparty_profiles[cp].concentration_ratio

\* C24: after any sequence of analyses on one analyzer, no counterparty is
\* listed twice in high_risk_counterparties, and the summary's count of
\* high-risk counterparties does not exceed its count of counterparties.
C24_HighRiskListedOnce ==
    analyzer_status = "ok" =>
        /\ \A i, j \in DOMAIN high_risk_counterparties :
              high_risk_counterparties[i] = high_risk_counterparties[j] => i = j
        /\ analysis_results.summary.high_risk_counterparties
              <= analysis_results.summary.total_counterparties

\* C25: after any sequence of analyses on one analyzer, the profiles held are
\* those of the counterparty types of the latest data and no others, and the
\* summary's total_counterparties is the aggregates' unique_counterparties.
C25_ResultDescribesLatestData ==
    analyzer_status = "ok" =>
        /\ DOMAIN counterparty_profiles = AnalyzedTypes
        /\ analysis_results.summary.total_counterparties
              = risk_aggregates.unique_counterparties

\* The three accessors of processed_data.
Accessors == {"get_processed_data", "save_processed_data", "get_data_summary"}

\* A step that is a call of the operations ops: only they set last_call.
CallOf(ops) == last_call' # last_call /\ last_call'.op \in ops

\* C26: clean_data and derive_risk_fields raise ValueError while no data is
\* loaded; an accessor of processed_data returns a result when the last
\* derive_risk_fields completed, and raises ValueError when none was called
\* or the last one failed.
C26_ResultOnlyAfterCompletedDerive ==
    [][/\ (CallOf({"clean_data"}) /\ data = None) => last_call'.status = "ValueError"
       /\ (data = None /\ processor_status' # processor_status)
          => processor_status' = "ValueError"
       /\ CallOf(Accessors)
          => last_call'.status = (IF processor_status = "ok" THEN "ok"
                                  ELSE "ValueError")]_vars

====
